---------------------------- MODULE Spec2Model ----------------------------
(***************************************************************************)
(* The concurrent scanning pipeline of directory_scan: BoundedFileQueue    *)
(* (src/src/bounded_file_queue.h) and searchInDirectory / searchInFile     *)
(* (src/src/dirscan.cpp).                                                  *)
(*                                                                         *)
(* Every critical section of a std::mutex is one atomic step, except that  *)
(* a condition_variable::wait splits its critical section in two and that  *)
(* the results-file critical section is written line by line.              *)
(***************************************************************************)
EXTENDS Integers, Sequences, FiniteSets, TLC

(***************************************************************************)
(* Bounds of the model.                                                    *)
(***************************************************************************)
\* number of worker threads (hardware_concurrency, dirscan.cpp:319)
NumWorkers == 2
\* number of directory entries the recursive iterator can yield
MaxEntries == 2
\* number of lines std::getline can return for one file
MaxLines == 2
\* the capacity searchInDirectory gives its queue (10000 in dirscan.cpp:244)
MAX_QUEUE_SIZE == 1
\* when the queue is driven on its own: the largest capacity it is built
\* with, the number of push calls and the number of setFinished calls made
MaxCapacity == 2
MaxPushes == 3
MaxSetFinished == 2

Producer == 0
Workers == 1..NumWorkers
Clients == {Producer} \cup Workers
Paths == 1..(IF MaxEntries > MaxPushes THEN MaxEntries ELSE MaxPushes)
NoPath == 0

VARIABLES
  fileQueue,        \* the BoundedFileQueue: queue_, maxSize_, finished_, and the
                    \* threads blocked in condProducer_ / condConsumer_
  pc,               \* position of the producer (0) and of each worker
  filePath,         \* the local `filePath` of the producer / of each worker
  entry,            \* number of directory entries the iterator has yielded (of paths made up
                    \* for push when the queue is driven on its own)
  pushed,           \* history: paths handed to push while finished_ was false
  discarded,        \* history: paths whose push returned without enqueuing
  popped,           \* history: the path returned by each successful pop, in order
  popFalse,         \* history: some pop has returned false
  finishCalls,      \* history: number of setFinished calls made
  mainPc,           \* position of the thread running searchInDirectory
  workersStarted,   \* number of worker threads main has created
  workersJoined,    \* number of worker threads main has joined
  monPc,            \* position of the monitor thread
  done,             \* the monitor's local `done`
  regex_error,      \* use_regex is set and std::regex(query) throws std::regex_error
  lineNumber,       \* searchInFile's local `lineNumber`, per worker
  matches,          \* searchInFile's local `matches` (the line numbers), per worker
  flushed,          \* number of elements of `matches` written by the loop of dirscan.cpp:212, per worker
  fileMatches,      \* history: for each path, how many lines getline returned that match the query
  g_status,         \* StatusData g_status
  g_filesProcessed, \* std::atomic<size_t> g_filesProcessed
  g_resultsFile,    \* the lines written to search_results.txt
  resultsHolder     \* the thread holding g_resultsMutex (NoThread when free)

queueVars == <<fileQueue, pc, filePath, entry, pushed, discarded, popped, popFalse, finishCalls>>
mainVars == <<mainPc, workersStarted, workersJoined>>
monVars == <<monPc, done>>
searchVars == <<regex_error, lineNumber, matches, flushed, fileMatches>>
outVars == <<g_status, g_filesProcessed, g_resultsFile, resultsHolder>>
vars == <<queueVars, mainVars, monVars, searchVars, outVars>>

NoThread == -1

(***************************************************************************)
(* BoundedFileQueue                                                        *)
(***************************************************************************)
\* the constructor: empty queue, finished_ = false, nobody waiting
BoundedFileQueue(maxSize) ==
  [queue_ |-> <<>>, maxSize_ |-> maxSize, finished_ |-> FALSE,
   condProducer_ |-> {}, condConsumer_ |-> {}]

\* notify_one forgotten: nobody is released
notify_one_lost(S) == {S}

\* condition_variable::notify_one on the set S of blocked threads: if any
\* thread is blocked, one of them (any one) is released
notify_one(S) == IF S = {} THEN {S} ELSE {S \ {t} : t \in S}

\* condition_variable::notify_all: every blocked thread is released
notify_all(S) == {}

\* push waits with `<=` where the code has `<`
pushReady_offByOne(q) == Len(q.queue_) <= q.maxSize_ \/ q.finished_

\* the predicate push waits for
pushReady(q) == Len(q.queue_) < q.maxSize_ \/ q.finished_

\* pop does not wait
popReady_noWait(q) == TRUE

\* the predicate pop waits for
popReady(q) == q.queue_ # <<>> \/ q.finished_

\* push without the test of finished_
push_ignoresFinished(q, path) ==
  {[q EXCEPT !.queue_ = Append(@, path), !.condConsumer_ = S] :
     S \in notify_one(q.condConsumer_)}

\* push after its wait: the queues that can result
push(q, path) ==
  IF q.finished_
    THEN {q}
    ELSE {[q EXCEPT !.queue_ = Append(@, path), !.condConsumer_ = S] :
            S \in notify_one(q.condConsumer_)}

\* pop testing finished_ before the queue: false as soon as finished_ is set
pop_falseWhenFinished(q) ==
  IF q.queue_ = <<>> \/ q.finished_
    THEN {[q |-> q, ret |-> FALSE, path |-> NoPath]}
    ELSE {[q |-> [q EXCEPT !.queue_ = Tail(@), !.condProducer_ = S],
           ret |-> TRUE, path |-> Head(q.queue_)] :
            S \in notify_one(q.condProducer_)}

\* pop without queue_.pop(): the front stays queued
pop_keepsFront(q) ==
  IF q.queue_ = <<>>
    THEN {[q |-> q, ret |-> FALSE, path |-> NoPath]}
    ELSE {[q |-> [q EXCEPT !.condProducer_ = S],
           ret |-> TRUE, path |-> Head(q.queue_)] :
            S \in notify_one(q.condProducer_)}

\* pop taking the back of the queue instead of the front
pop_back(q) ==
  IF q.queue_ = <<>>
    THEN {[q |-> q, ret |-> FALSE, path |-> NoPath]}
    ELSE {[q |-> [q EXCEPT !.queue_ = SubSeq(@, 1, Len(@) - 1), !.condProducer_ = S],
           ret |-> TRUE, path |-> q.queue_[Len(q.queue_)]] :
            S \in notify_one(q.condProducer_)}

\* pop after its wait: the results (new queue, return value, out-parameter)
pop(q) ==
  IF q.queue_ = <<>>
    THEN {[q |-> q, ret |-> FALSE, path |-> NoPath]}
    ELSE {[q |-> [q EXCEPT !.queue_ = Tail(@), !.condProducer_ = S],
           ret |-> TRUE, path |-> Head(q.queue_)] :
            S \in notify_one(q.condProducer_)}

\* setFinished without condConsumer_.notify_all()
setFinished_wakesProducersOnly(q) ==
  [q EXCEPT !.finished_ = TRUE, !.condProducer_ = notify_all(@)]

setFinished(q) ==
  [q EXCEPT !.finished_ = TRUE,
            !.condProducer_ = notify_all(@),
            !.condConsumer_ = notify_all(@)]

isFinished(q) == q.finished_

isEmpty(q) == q.queue_ = <<>>

\* thread t is inside condProducer_.wait / condConsumer_.wait and not notified
BlockedInPush(t) == pc[t] = "push_wait" /\ t \in fileQueue.condProducer_
BlockedInPop(t) == pc[t] = "pop_wait" /\ t \in fileQueue.condConsumer_

(***************************************************************************)
(* A call of push by thread t with argument filePath[t]: the step that     *)
(* takes the lock (on entry, or when the wait is over) and evaluates the   *)
(* wait predicate; `after` is where t continues when push returns.         *)
(***************************************************************************)
PushStep(t, after) ==
  /\ pc[t] = "push" \/ (pc[t] = "push_wait" /\ t \notin fileQueue.condProducer_)
  /\ IF pushReady(fileQueue)
       THEN /\ fileQueue' \in push(fileQueue, filePath[t])
            /\ pc' = [pc EXCEPT ![t] = after]
            /\ pushed' = IF fileQueue.finished_ THEN pushed
                         ELSE Append(pushed, filePath[t])
            /\ discarded' = IF fileQueue'.queue_ = fileQueue.queue_
                              THEN discarded \cup {filePath[t]} ELSE discarded
       ELSE /\ fileQueue' = [fileQueue EXCEPT !.condProducer_ = @ \cup {t}]
            /\ pc' = [pc EXCEPT ![t] = "push_wait"]
            /\ UNCHANGED <<pushed, discarded>>
  /\ UNCHANGED <<filePath, entry, popped, popFalse, finishCalls>>

(***************************************************************************)
(* A call of pop by thread t; `got` / `eos` are where t continues when pop *)
(* returns true / false.                                                   *)
(***************************************************************************)
PopStep(t, got, eos) ==
  /\ pc[t] = "pop" \/ (pc[t] = "pop_wait" /\ t \notin fileQueue.condConsumer_)
  /\ IF popReady(fileQueue)
       THEN \E r \in pop(fileQueue) :
              /\ fileQueue' = r.q
              /\ IF r.ret
                   THEN /\ filePath' = [filePath EXCEPT ![t] = r.path]
                        /\ popped' = Append(popped, r.path)
                        /\ pc' = [pc EXCEPT ![t] = got]
                        /\ UNCHANGED popFalse
                   ELSE /\ popFalse' = TRUE
                        /\ pc' = [pc EXCEPT ![t] = eos]
                        /\ UNCHANGED <<filePath, popped>>
       ELSE /\ fileQueue' = [fileQueue EXCEPT !.condConsumer_ = @ \cup {t}]
            /\ pc' = [pc EXCEPT ![t] = "pop_wait"]
            /\ UNCHANGED <<filePath, popped, popFalse>>
  /\ UNCHANGED <<entry, pushed, discarded, finishCalls>>

\* a call of setFinished by thread t
SetFinishedStep(t, after) ==
  /\ pc[t] = "setFinished"
  /\ fileQueue' = setFinished(fileQueue)
  /\ pc' = [pc EXCEPT ![t] = after]
  /\ finishCalls' = finishCalls + 1
  /\ UNCHANGED <<filePath, entry, pushed, discarded, popped, popFalse>>

\* condition_variable::wait may return without a notification
SpuriousWakeup ==
  /\ \E t \in Clients :
       \/ /\ t \in fileQueue.condProducer_
          /\ fileQueue' = [fileQueue EXCEPT !.condProducer_ = @ \ {t}]
       \/ /\ t \in fileQueue.condConsumer_
          /\ fileQueue' = [fileQueue EXCEPT !.condConsumer_ = @ \ {t}]
  /\ UNCHANGED <<pc, filePath, entry, pushed, discarded, popped, popFalse, finishCalls>>
  /\ UNCHANGED <<mainVars, monVars, searchVars, outVars>>

(***************************************************************************)
(* State shared by both specifications at construction                      *)
(***************************************************************************)
StatusData ==
  [filesScanned |-> 0, currentFile |-> NoPath, fileHits |-> 0, totalHits |-> 0,
   lastError |-> [what |-> "none", path |-> NoPath]]

InitData ==
  /\ filePath = [t \in Clients |-> NoPath]
  /\ entry = 0
  /\ pushed = <<>>
  /\ discarded = {}
  /\ popped = <<>>
  /\ popFalse = FALSE
  /\ finishCalls = 0
  /\ workersStarted = 0
  /\ workersJoined = 0
  /\ monPc = "idle"
  /\ done = FALSE
  /\ lineNumber = [w \in Workers |-> 1]
  /\ matches = [w \in Workers |-> <<>>]
  /\ flushed = [w \in Workers |-> 0]
  /\ fileMatches = [p \in Paths |-> 0]
  /\ g_status = StatusData
  /\ g_filesProcessed = 0
  /\ g_resultsFile = <<>>
  /\ resultsHolder = NoThread

(***************************************************************************)
(* QueueSpec: the queue alone, its three operations called by the producer *)
(* and the workers in any order and any number of times.                   *)
(***************************************************************************)
QInit ==
  /\ InitData
  /\ \E maxSize \in 1..MaxCapacity : fileQueue = BoundedFileQueue(maxSize)
  /\ pc = [t \in Clients |-> "ready"]
  /\ mainPc = "queue_only"
  /\ regex_error = FALSE

QCallPush(t) ==
  /\ pc[t] = "ready"
  /\ entry < MaxPushes
  /\ entry' = entry + 1
  /\ filePath' = [filePath EXCEPT ![t] = entry + 1]
  /\ pc' = [pc EXCEPT ![t] = "push"]
  /\ UNCHANGED <<fileQueue, pushed, discarded, popped, popFalse, finishCalls>>
  /\ UNCHANGED <<mainVars, monVars, searchVars, outVars>>

QPush(t) ==
  /\ PushStep(t, "ready")
  /\ UNCHANGED <<mainVars, monVars, searchVars, outVars>>

QCallPop(t) ==
  /\ pc[t] = "ready"
  /\ pc' = [pc EXCEPT ![t] = "pop"]
  /\ UNCHANGED <<fileQueue, filePath, entry, pushed, discarded, popped, popFalse, finishCalls>>
  /\ UNCHANGED <<mainVars, monVars, searchVars, outVars>>

QPop(t) ==
  /\ PopStep(t, "ready", "ready")
  /\ UNCHANGED <<mainVars, monVars, searchVars, outVars>>

QCallSetFinished(t) ==
  /\ pc[t] = "ready"
  /\ finishCalls + Cardinality({u \in Clients : pc[u] = "setFinished"}) < MaxSetFinished
  /\ pc' = [pc EXCEPT ![t] = "setFinished"]
  /\ UNCHANGED <<fileQueue, filePath, entry, pushed, discarded, popped, popFalse, finishCalls>>
  /\ UNCHANGED <<mainVars, monVars, searchVars, outVars>>

QSetFinished(t) ==
  /\ SetFinishedStep(t, "ready")
  /\ UNCHANGED <<mainVars, monVars, searchVars, outVars>>

QNext ==
  \/ \E t \in Clients : QCallPush(t)
  \/ \E t \in Clients : QPush(t)
  \/ \E t \in Clients : QCallPop(t)
  \/ \E t \in Clients : QPop(t)
  \/ \E t \in Clients : QCallSetFinished(t)
  \/ \E t \in Clients : QSetFinished(t)
  \/ SpuriousWakeup

QueueSpec == QInit /\ [][QNext]_vars

(***************************************************************************)
(* Spec: one call of searchInDirectory.                                    *)
(***************************************************************************)
Init ==
  /\ InitData
  /\ fileQueue = BoundedFileQueue(MAX_QUEUE_SIZE)
  /\ pc = [t \in Clients |-> "idle"]
  /\ mainPc = "open_results"
  /\ regex_error \in BOOLEAN

setLastError(what, path) ==
  g_status' = [g_status EXCEPT !.lastError = [what |-> what, path |-> path]]

(************************* the producer thread ****************************)
\* the iterator yields a regular file that passes the wildcard filter
ProducerEntryFile ==
  /\ pc[Producer] = "iterate"
  /\ entry < MaxEntries
  /\ entry' = entry + 1
  /\ filePath' = [filePath EXCEPT ![Producer] = entry + 1]
  /\ pc' = [pc EXCEPT ![Producer] = "push"]
  /\ UNCHANGED <<fileQueue, pushed, discarded, popped, popFalse, finishCalls>>
  /\ UNCHANGED <<mainVars, monVars, searchVars, outVars>>

\* the iterator yields an entry that is no regular file or fails the filter
ProducerEntrySkipped ==
  /\ pc[Producer] = "iterate"
  /\ entry < MaxEntries
  /\ entry' = entry + 1
  /\ UNCHANGED <<fileQueue, pc, filePath, pushed, discarded, popped, popFalse, finishCalls>>
  /\ UNCHANGED <<mainVars, monVars, searchVars, outVars>>

\* inspecting the entry throws: the inner catch records it, the loop goes on
ProducerEntryError ==
  /\ pc[Producer] = "iterate"
  /\ entry < MaxEntries
  /\ entry' = entry + 1
  /\ setLastError("Error reading an entry", entry + 1)
  /\ UNCHANGED <<fileQueue, pc, filePath, pushed, discarded, popped, popFalse, finishCalls>>
  /\ UNCHANGED <<g_filesProcessed, g_resultsFile, resultsHolder>>
  /\ UNCHANGED <<mainVars, monVars, searchVars>>

\* setFinished placed inside the try block: the fatal error skips it
ProducerFatalError_noSetFinished ==
  /\ pc[Producer] = "iterate"
  /\ pc' = [pc EXCEPT ![Producer] = "exited"]
  /\ setLastError("Error scanning directory", NoPath)
  /\ UNCHANGED <<fileQueue, filePath, entry, pushed, discarded, popped, popFalse, finishCalls>>
  /\ UNCHANGED <<g_filesProcessed, g_resultsFile, resultsHolder>>
  /\ UNCHANGED <<mainVars, monVars, searchVars>>

\* the iterator itself throws: the outer catch records it, the loop is left
ProducerFatalError ==
  /\ pc[Producer] = "iterate"
  /\ pc' = [pc EXCEPT ![Producer] = "setFinished"]
  /\ setLastError("Error scanning directory", NoPath)
  /\ UNCHANGED <<fileQueue, filePath, entry, pushed, discarded, popped, popFalse, finishCalls>>
  /\ UNCHANGED <<g_filesProcessed, g_resultsFile, resultsHolder>>
  /\ UNCHANGED <<mainVars, monVars, searchVars>>

\* the iterator reaches the end of the tree
ProducerEndOfTree ==
  /\ pc[Producer] = "iterate"
  /\ pc' = [pc EXCEPT ![Producer] = "setFinished"]
  /\ UNCHANGED <<fileQueue, filePath, entry, pushed, discarded, popped, popFalse, finishCalls>>
  /\ UNCHANGED <<mainVars, monVars, searchVars, outVars>>

ProducerPush ==
  /\ PushStep(Producer, "iterate")
  /\ UNCHANGED <<mainVars, monVars, searchVars, outVars>>

\* setFinished called inside the loop over the entries
ProducerSetFinished_inLoop ==
  /\ SetFinishedStep(Producer, "iterate")
  /\ UNCHANGED <<mainVars, monVars, searchVars, outVars>>

ProducerSetFinished ==
  /\ SetFinishedStep(Producer, "exited")
  /\ UNCHANGED <<mainVars, monVars, searchVars, outVars>>

ProducerNext ==
  \/ ProducerEntryFile
  \/ ProducerEntrySkipped
  \/ ProducerEntryError
  \/ ProducerFatalError
  \/ ProducerEndOfTree
  \/ ProducerPush
  \/ ProducerSetFinished

(*************************** a worker thread ******************************)
\* searchInFile returns and the worker loop starts its next iteration: the
\* locals of searchInFile and the loop's `filePath` are gone
NextIteration(w) ==
  /\ pc' = [pc EXCEPT ![w] = "pop"]
  /\ filePath' = [filePath EXCEPT ![w] = NoPath]
  /\ lineNumber' = [lineNumber EXCEPT ![w] = 1]
  /\ matches' = [matches EXCEPT ![w] = <<>>]
  /\ flushed' = [flushed EXCEPT ![w] = 0]

WorkerPop(w) ==
  /\ PopStep(w, "claim", "exited")
  /\ UNCHANGED <<mainVars, monVars, searchVars, outVars>>

\* the worker records the popped path as currentFile and resets fileHits
WorkerClaim(w) ==
  /\ pc[w] = "claim"
  /\ g_status' = [g_status EXCEPT !.currentFile = filePath[w], !.fileHits = 0]
  /\ pc' = [pc EXCEPT ![w] = "searchInFile"]
  /\ UNCHANGED <<fileQueue, filePath, entry, pushed, discarded, popped, popFalse, finishCalls>>
  /\ UNCHANGED <<g_filesProcessed, g_resultsFile, resultsHolder>>
  /\ UNCHANGED <<mainVars, monVars, searchVars>>

\* searchInFile: the file cannot be opened
SearchOpenFails(w) ==
  /\ pc[w] = "searchInFile"
  /\ setLastError("Could not open", filePath[w])
  /\ NextIteration(w)
  /\ UNCHANGED <<fileQueue, entry, pushed, discarded, popped, popFalse, finishCalls>>
  /\ UNCHANGED <<g_filesProcessed, g_resultsFile, resultsHolder>>
  /\ UNCHANGED <<mainVars, monVars, regex_error, fileMatches>>

\* searchInFile: the file is open, use_regex is set and std::regex(query) throws
SearchRegexFails(w) ==
  /\ pc[w] = "searchInFile"
  /\ regex_error
  /\ setLastError("Invalid regex", NoPath)
  /\ NextIteration(w)
  /\ UNCHANGED <<fileQueue, entry, pushed, discarded, popped, popFalse, finishCalls>>
  /\ UNCHANGED <<g_filesProcessed, g_resultsFile, resultsHolder>>
  /\ UNCHANGED <<mainVars, monVars, regex_error, fileMatches>>

\* searchInFile: the file is open; use_regex is not set or the regex is built
SearchOpened(w) ==
  /\ pc[w] = "searchInFile"
  /\ ~regex_error
  /\ lineNumber' = [lineNumber EXCEPT ![w] = 1]
  /\ matches' = [matches EXCEPT ![w] = <<>>]
  /\ pc' = [pc EXCEPT ![w] = "getline"]
  /\ UNCHANGED <<fileQueue, filePath, entry, pushed, discarded, popped, popFalse, finishCalls>>
  /\ UNCHANGED <<regex_error, flushed, fileMatches>>
  /\ UNCHANGED <<mainVars, monVars, outVars>>

\* totalHits++ outside g_statusMutex: the increment is lost when another
\* worker is updating the counters too
SearchLineFound_lostUpdate(w) ==
  /\ pc[w] = "getline"
  /\ \E k \in lineNumber[w]..MaxLines :
       /\ matches' = [matches EXCEPT ![w] = Append(@, k)]
       /\ lineNumber' = [lineNumber EXCEPT ![w] = k + 1]
  /\ g_status' = [g_status EXCEPT
                    !.fileHits = @ + 1,
                    !.totalHits = IF \E v \in Workers \ {w} : pc[v] = "getline"
                                    THEN @ ELSE @ + 1]
  /\ fileMatches' = [fileMatches EXCEPT ![filePath[w]] = @ + 1]
  /\ UNCHANGED <<queueVars, mainVars, monVars>>
  /\ UNCHANGED <<regex_error, flushed>>
  /\ UNCHANGED <<g_filesProcessed, g_resultsFile, resultsHolder>>

\* the match inserted at the front of `matches` instead of pushed at its back
SearchLineFound_prepends(w) ==
  /\ pc[w] = "getline"
  /\ \E k \in lineNumber[w]..MaxLines :
       /\ matches' = [matches EXCEPT ![w] = <<k>> \o @]
       /\ lineNumber' = [lineNumber EXCEPT ![w] = k + 1]
  /\ g_status' = [g_status EXCEPT !.fileHits = @ + 1, !.totalHits = @ + 1]
  /\ fileMatches' = [fileMatches EXCEPT ![filePath[w]] = @ + 1]
  /\ UNCHANGED <<queueVars, mainVars, monVars>>
  /\ UNCHANGED <<regex_error, flushed>>
  /\ UNCHANGED <<g_filesProcessed, g_resultsFile, resultsHolder>>

\* the loop over getline up to and including the next line that matches the
\* query (line k; the lines before it, if any, do not match and only advance
\* lineNumber): the match is recorded and the status counters are updated
SearchLineFound(w) ==
  /\ pc[w] = "getline"
  /\ \E k \in lineNumber[w]..MaxLines :
       /\ matches' = [matches EXCEPT ![w] = Append(@, k)]
       /\ lineNumber' = [lineNumber EXCEPT ![w] = k + 1]
  /\ g_status' = [g_status EXCEPT !.fileHits = @ + 1, !.totalHits = @ + 1]
  /\ fileMatches' = [fileMatches EXCEPT ![filePath[w]] = @ + 1]
  /\ UNCHANGED <<queueVars, mainVars, monVars>>
  /\ UNCHANGED <<regex_error, flushed>>
  /\ UNCHANGED <<g_filesProcessed, g_resultsFile, resultsHolder>>

\* the end of searchInFile without the test `!matches.empty()`
SearchEndOfFile_alwaysWrites(w) ==
  /\ pc[w] = "getline"
  /\ g_filesProcessed' = g_filesProcessed + 1
  /\ g_status' = [g_status EXCEPT !.filesScanned = @ + 1]
  /\ pc' = [pc EXCEPT ![w] = "results_lock"]
  /\ UNCHANGED <<fileQueue, filePath, entry, pushed, discarded, popped, popFalse, finishCalls>>
  /\ UNCHANGED <<g_resultsFile, resultsHolder>>
  /\ UNCHANGED <<mainVars, monVars, searchVars>>

\* the rest of the loop (the remaining lines, if any, do not match) until
\* getline fails at the end of the file: the file is counted; with matches the
\* worker goes on to write them, without it returns to its loop
SearchEndOfFile(w) ==
  /\ pc[w] = "getline"
  /\ g_filesProcessed' = g_filesProcessed + 1
  /\ g_status' = [g_status EXCEPT !.filesScanned = @ + 1]
  /\ IF matches[w] # <<>>
       THEN /\ pc' = [pc EXCEPT ![w] = "results_lock"]
            /\ UNCHANGED <<filePath, lineNumber, matches, flushed>>
       ELSE NextIteration(w)
  /\ UNCHANGED <<fileQueue, entry, pushed, discarded, popped, popFalse, finishCalls>>
  /\ UNCHANGED <<g_resultsFile, resultsHolder>>
  /\ UNCHANGED <<mainVars, monVars, regex_error, fileMatches>>

\* one line of search_results.txt
ResultLine(kind, path, n) == [kind |-> kind, path |-> path, n |-> n]

\* the block written without taking g_resultsMutex
ResultsHeader_noLock(w) ==
  /\ pc[w] = "results_lock"
  /\ resultsHolder' = w
  /\ g_resultsFile' = Append(g_resultsFile,
                             ResultLine("header", filePath[w], Len(matches[w])))
  /\ flushed' = [flushed EXCEPT ![w] = 0]
  /\ pc' = [pc EXCEPT ![w] = "results_write"]
  /\ UNCHANGED <<fileQueue, filePath, entry, pushed, discarded, popped, popFalse, finishCalls>>
  /\ UNCHANGED <<regex_error, lineNumber, matches, fileMatches>>
  /\ UNCHANGED <<g_status, g_filesProcessed>>
  /\ UNCHANGED <<mainVars, monVars>>

\* lock g_resultsMutex and write "Matches in file: <path> (<N> hits)"
ResultsHeader(w) ==
  /\ pc[w] = "results_lock"
  /\ resultsHolder = NoThread
  /\ resultsHolder' = w
  /\ g_resultsFile' = Append(g_resultsFile,
                             ResultLine("header", filePath[w], Len(matches[w])))
  /\ flushed' = [flushed EXCEPT ![w] = 0]
  /\ pc' = [pc EXCEPT ![w] = "results_write"]
  /\ UNCHANGED <<fileQueue, filePath, entry, pushed, discarded, popped, popFalse, finishCalls>>
  /\ UNCHANGED <<regex_error, lineNumber, matches, fileMatches>>
  /\ UNCHANGED <<g_status, g_filesProcessed>>
  /\ UNCHANGED <<mainVars, monVars>>

\* write "    Line <k>: <snippet>" for the next element of matches
ResultsMatch(w) ==
  /\ pc[w] = "results_write"
  /\ flushed[w] < Len(matches[w])
  /\ g_resultsFile' = Append(g_resultsFile,
                             ResultLine("line", NoPath, matches[w][flushed[w] + 1]))
  /\ flushed' = [flushed EXCEPT ![w] = @ + 1]
  /\ UNCHANGED <<queueVars, mainVars, monVars>>
  /\ UNCHANGED <<regex_error, lineNumber, matches, fileMatches>>
  /\ UNCHANGED <<g_status, g_filesProcessed, resultsHolder>>

\* write the blank line, flush, unlock g_resultsMutex, return
ResultsEnd(w) ==
  /\ pc[w] = "results_write"
  /\ flushed[w] = Len(matches[w])
  /\ g_resultsFile' = Append(g_resultsFile, ResultLine("blank", NoPath, 0))
  /\ resultsHolder' = NoThread
  /\ NextIteration(w)
  /\ UNCHANGED <<fileQueue, entry, pushed, discarded, popped, popFalse, finishCalls>>
  /\ UNCHANGED <<g_status, g_filesProcessed>>
  /\ UNCHANGED <<mainVars, monVars, regex_error, fileMatches>>

WorkerNext(w) ==
  \/ WorkerPop(w)
  \/ WorkerClaim(w)
  \/ SearchOpenFails(w)
  \/ SearchRegexFails(w)
  \/ SearchOpened(w)
  \/ SearchLineFound(w)
  \/ SearchEndOfFile(w)
  \/ ResultsHeader(w)
  \/ ResultsMatch(w)
  \/ ResultsEnd(w)

(*************************** the monitor thread ***************************)
\* `done` computed from isFinished() alone
MonitorIsFinished_only ==
  /\ monPc = "sleep"
  /\ done' = isFinished(fileQueue)
  /\ monPc' = "print"
  /\ UNCHANGED <<queueVars, mainVars, searchVars, outVars>>

\* after the sleep: fileQueue.isFinished(); false short-circuits the &&
MonitorIsFinished ==
  /\ monPc = "sleep"
  /\ IF isFinished(fileQueue)
       THEN monPc' = "isEmpty" /\ UNCHANGED done
       ELSE monPc' = "print" /\ done' = FALSE
  /\ UNCHANGED <<queueVars, mainVars, searchVars, outVars>>

MonitorIsEmpty ==
  /\ monPc = "isEmpty"
  /\ done' = isEmpty(fileQueue)
  /\ monPc' = "print"
  /\ UNCHANGED <<queueVars, mainVars, searchVars, outVars>>

\* printStatusTable under g_statusMutex, then the test of done
MonitorPrint ==
  /\ monPc = "print"
  /\ monPc' = IF done THEN "exited" ELSE "sleep"
  /\ UNCHANGED <<queueVars, mainVars, searchVars, outVars, done>>

MonitorNext ==
  \/ MonitorIsFinished
  \/ MonitorIsEmpty
  \/ MonitorPrint

(********************* the thread in searchInDirectory ********************)
\* g_resultsFile.open(..., trunc) succeeds
MainOpenResults ==
  /\ mainPc = "open_results"
  /\ g_resultsFile' = <<>>
  /\ mainPc' = "build_filter"
  /\ UNCHANGED <<queueVars, monVars, searchVars>>
  /\ UNCHANGED <<workersStarted, workersJoined, g_status, g_filesProcessed, resultsHolder>>

\* g_resultsFile.open fails: return
MainOpenResultsFails ==
  /\ mainPc = "open_results"
  /\ mainPc' = "returned"
  /\ UNCHANGED <<queueVars, monVars, searchVars, outVars, workersStarted, workersJoined>>

\* no filePattern, or its regex compiles
MainBuildFilter ==
  /\ mainPc = "build_filter"
  /\ mainPc' = "spawn_monitor"
  /\ UNCHANGED <<queueVars, monVars, searchVars, outVars, workersStarted, workersJoined>>

\* the monitor thread created before the filter is built
MainBuildFilterFails_monitorStarted ==
  /\ mainPc = "build_filter"
  /\ monPc' = "sleep"
  /\ mainPc' = "returned"
  /\ UNCHANGED <<queueVars, searchVars, outVars, workersStarted, workersJoined, done>>

\* the regex of filePattern throws: return
MainBuildFilterFails ==
  /\ mainPc = "build_filter"
  /\ mainPc' = "returned"
  /\ UNCHANGED <<queueVars, monVars, searchVars, outVars, workersStarted, workersJoined>>

MainSpawnMonitor ==
  /\ mainPc = "spawn_monitor"
  /\ monPc' = "sleep"
  /\ mainPc' = "spawn_producer"
  /\ UNCHANGED <<queueVars, searchVars, outVars, workersStarted, workersJoined, done>>

MainSpawnProducer ==
  /\ mainPc = "spawn_producer"
  /\ pc' = [pc EXCEPT ![Producer] = "iterate"]
  /\ mainPc' = "spawn_workers"
  /\ UNCHANGED <<fileQueue, filePath, entry, pushed, discarded, popped, popFalse, finishCalls>>
  /\ UNCHANGED <<monVars, searchVars, outVars, workersStarted, workersJoined>>

MainSpawnWorker ==
  /\ mainPc = "spawn_workers"
  /\ workersStarted < NumWorkers
  /\ workersStarted' = workersStarted + 1
  /\ pc' = [pc EXCEPT ![workersStarted + 1] = "pop"]
  /\ mainPc' = IF workersStarted + 1 = NumWorkers THEN "join_producer" ELSE mainPc
  /\ UNCHANGED <<fileQueue, filePath, entry, pushed, discarded, popped, popFalse, finishCalls>>
  /\ UNCHANGED <<monVars, searchVars, outVars, workersJoined>>

MainJoinProducer ==
  /\ mainPc = "join_producer"
  /\ pc[Producer] = "exited"
  /\ mainPc' = "join_workers"
  /\ UNCHANGED <<queueVars, monVars, searchVars, outVars, workersStarted, workersJoined>>

\* the worker threads detached instead of joined
MainJoinWorker_noWait ==
  /\ mainPc = "join_workers"
  /\ workersJoined < NumWorkers
  /\ workersJoined' = workersJoined + 1
  /\ mainPc' = IF workersJoined + 1 = NumWorkers THEN "join_monitor" ELSE mainPc
  /\ UNCHANGED <<queueVars, monVars, searchVars, outVars, workersStarted>>

MainJoinWorker ==
  /\ mainPc = "join_workers"
  /\ workersJoined < NumWorkers
  /\ pc[workersJoined + 1] = "exited"
  /\ workersJoined' = workersJoined + 1
  /\ mainPc' = IF workersJoined + 1 = NumWorkers THEN "join_monitor" ELSE mainPc
  /\ UNCHANGED <<queueVars, monVars, searchVars, outVars, workersStarted>>

MainJoinMonitor ==
  /\ mainPc = "join_monitor"
  /\ monPc = "exited"
  /\ mainPc' = "final_print"
  /\ UNCHANGED <<queueVars, monVars, searchVars, outVars, workersStarted, workersJoined>>

\* the final printStatusTable, then return
MainFinalPrint ==
  /\ mainPc = "final_print"
  /\ mainPc' = "returned"
  /\ UNCHANGED <<queueVars, monVars, searchVars, outVars, workersStarted, workersJoined>>

MainNext ==
  \/ MainOpenResults
  \/ MainOpenResultsFails
  \/ MainBuildFilter
  \/ MainBuildFilterFails
  \/ MainSpawnMonitor
  \/ MainSpawnProducer
  \/ MainSpawnWorker
  \/ MainJoinProducer
  \/ MainJoinWorker
  \/ MainJoinMonitor
  \/ MainFinalPrint

Next ==
  \/ MainNext
  \/ MonitorNext
  \/ ProducerNext
  \/ \E w \in Workers : WorkerNext(w)
  \/ SpuriousWakeup

Spec == Init /\ [][Next]_vars

(***************************************************************************)
(* SessionSpec: a process that calls searchInDirectory, and after its      *)
(* return calls it again; the second call is followed up to its entry.     *)
(***************************************************************************)
\* the entry of the second call: the statics g_status, g_filesProcessed and
\* g_resultsFile are as the first call left them
CallAgain ==
  /\ mainPc = "returned"
  /\ mainPc' = "second_call"
  /\ UNCHANGED <<queueVars, monVars, searchVars, outVars, workersStarted, workersJoined>>

SessionNext ==
  \/ Next
  \/ CallAgain

SessionSpec == Init /\ [][SessionNext]_vars

\* every thread that can run is eventually scheduled; a spurious wake-up is
\* never owed
FairSpec ==
  /\ Spec
  /\ WF_vars(MainNext)
  /\ WF_vars(MonitorNext)
  /\ WF_vars(ProducerNext)
  /\ \A w \in Workers : WF_vars(WorkerNext(w))

(***************************************************************************)
(* Properties                                                              *)
(***************************************************************************)
Range(seq) == {seq[i] : i \in DOMAIN seq}

QueueThreadsDone == pc[Producer] = "exited" /\ \A w \in Workers : pc[w] = "exited"

\* C1: under any interleaving of push, pop and setFinished calls by the
\* producer and the workers, the number of queued paths is at least 0 and at
\* most the capacity maxSize_ the queue was built with.
QueueCapacityInvariant ==
  /\ 0 <= Len(fileQueue.queue_)
  /\ Len(fileQueue.queue_) <= fileQueue.maxSize_

\* the queue is full with a push blocked on it, after pops have taken place
C1_Witness ==
  /\ Len(fileQueue.queue_) = fileQueue.maxSize_
  /\ \E t \in Clients : BlockedInPush(t)
  /\ popped # <<>>

\* a path is returned by at most one pop
NoDuplication ==
  /\ \A i, j \in DOMAIN popped : i # j => popped[i] # popped[j]
  /\ Range(popped) \subseteq Range(pushed)

\* C2: no loss, no duplication: no path is returned by two pops (so no two
\* workers receive it), only pushed paths are returned, and every path the
\* producer pushes is eventually returned by a pop.
NoLossNoDuplication ==
  /\ []NoDuplication
  /\ \A p \in Paths : (p \in Range(pushed)) ~> (p \in Range(popped))

\* the producer pushed as many paths as the tree has entries, the workers
\* have popped each of them and left their loops
C2_Witness ==
  /\ Len(pushed) = MaxEntries
  /\ Range(popped) = Range(pushed)
  /\ QueueThreadsDone

\* a pop that returns on the finished, empty queue ends the worker loop
PopAtEndOfStream ==
  \A w \in Workers :
    /\ fileQueue.finished_ /\ fileQueue.queue_ = <<>>
    /\ pc[w] \in {"pop", "pop_wait"}
    /\ pc'[w] # pc[w]
    => pc'[w] = "exited"

\* C3: termination: a pop that returns while the queue is finished and empty,
\* whether it was blocked or is issued later, returns false, no worker is
\* blocked in pop in such a state, and once the producer has terminated
\* every worker eventually terminates.
Termination ==
  /\ [][PopAtEndOfStream]_vars
  /\ [](fileQueue.finished_ /\ fileQueue.queue_ = <<>>
          => \A w \in Workers : ~BlockedInPop(w))
  /\ (pc[Producer] = "exited") ~> (\A w \in Workers : pc[w] = "exited")

\* the queue is finished and drained after paths went through it, and every
\* worker has left its loop
C3_Witness ==
  /\ fileQueue.finished_ /\ fileQueue.queue_ = <<>>
  /\ popped # <<>>
  /\ QueueThreadsDone

\* the control flow of the producer thread
ProducerInLoop == pc[Producer] \in {"iterate", "push", "push_wait"}

ProducerLeavesThroughSetFinished ==
  /\ ProducerInLoop => pc'[Producer] \in {"iterate", "push", "push_wait", "setFinished"}
  /\ pc[Producer] = "setFinished" => pc'[Producer] \in {"setFinished", "exited"}
  /\ pc[Producer] = "exited" =>
       /\ pc'[Producer] = "exited"
       /\ pushed' = pushed /\ discarded' = discarded
       /\ finishCalls' = finishCalls

\* C4: on every exit path the producer calls setFinished exactly once, as
\* its last action: it leaves its loop only towards the call of setFinished,
\* it has terminated exactly when the one call has been made, and after that
\* it neither pushes nor does anything else.
SetFinishedExactlyOnce ==
  /\ []((pc[Producer] = "exited") <=> (finishCalls = 1))
  /\ [](finishCalls <= 1)
  /\ [](fileQueue.finished_ <=> (finishCalls = 1))
  /\ [][ProducerLeavesThroughSetFinished]_vars

\* the producer has terminated after a fatal traversal error that followed
\* a per-entry error, and has called setFinished once
C4_Witness ==
  /\ pc[Producer] = "exited"
  /\ g_status.lastError.what = "Error scanning directory"
  /\ entry > 0 /\ Len(pushed) < entry
  /\ finishCalls = 1

\* progress of the pipeline threads and the effect of the notifications
ScanComplete == QueueThreadsDone /\ monPc = "exited"

AllStarted == mainPc \in {"join_producer", "join_workers", "join_monitor"}

NoDeadlock ==
  /\ AllStarted /\ ~ScanComplete
       => ENABLED (ProducerNext \/ MonitorNext \/ \E w \in Workers : WorkerNext(w))
  /\ AllStarted /\ ~QueueThreadsDone
       => ENABLED (ProducerNext \/ \E w \in Workers : WorkerNext(w))

ReleasedOne(before, after) ==
  /\ after \subseteq before
  /\ Cardinality(after) = IF before = {} THEN 0 ELSE Cardinality(before) - 1

WakeUps ==
  /\ Len(fileQueue'.queue_) > Len(fileQueue.queue_)
       => ReleasedOne(fileQueue.condConsumer_, fileQueue'.condConsumer_)
  /\ Len(fileQueue'.queue_) < Len(fileQueue.queue_)
       => ReleasedOne(fileQueue.condProducer_, fileQueue'.condProducer_)
  /\ ~fileQueue.finished_ /\ fileQueue'.finished_
       => fileQueue'.condProducer_ = {} /\ fileQueue'.condConsumer_ = {}

\* C5: the pipeline has no deadlock and no lost wake-up: as long as the
\* scan has not completed some thread can take a step, and once all threads
\* are started and the producer or a worker is still alive, the producer or
\* a worker can take a step; a push that inserts releases one blocked
\* consumer, a pop that removes releases one blocked producer, setFinished
\* releases everybody; a worker blocked in pop while the queue is non-empty
\* or finished, and a producer blocked in push while the queue has room or
\* is finished, is eventually not blocked.
NoDeadlockNoLostWakeup ==
  /\ []NoDeadlock
  /\ [][WakeUps]_vars
  /\ \A w \in Workers :
       (BlockedInPop(w) /\ (fileQueue.queue_ # <<>> \/ fileQueue.finished_))
         ~> ~BlockedInPop(w)
  /\ (BlockedInPush(Producer)
        /\ (Len(fileQueue.queue_) < fileQueue.maxSize_ \/ fileQueue.finished_))
         ~> ~BlockedInPush(Producer)

\* the producer is blocked in push on the full queue while a worker is
\* still blocked in pop (another worker was the one released)
C5_Witness ==
  /\ BlockedInPush(Producer)
  /\ \E w \in Workers : BlockedInPop(w) /\ fileQueue.queue_ # <<>>

\* the step in which a push call of client t returns
PushReturns(t) == pc[t] \in {"push", "push_wait"} /\ pc'[t] \notin {"push", "push_wait"}

PushContract ==
  \A t \in Clients :
    /\ PushReturns(t) =>
         IF fileQueue.finished_
           THEN fileQueue'.queue_ = fileQueue.queue_
           ELSE /\ fileQueue'.queue_ = Append(fileQueue.queue_, filePath[t])
                /\ Len(fileQueue.queue_) < fileQueue.maxSize_
    /\ /\ pc[t] = "push" /\ pc'[t] # "push"
       /\ Len(fileQueue.queue_) = fileQueue.maxSize_ /\ ~fileQueue.finished_
       => pc'[t] = "push_wait" /\ t \in fileQueue'.condProducer_
    /\ /\ pc[t] = "push_wait"
       /\ Len(fileQueue.queue_) = fileQueue.maxSize_ /\ ~fileQueue.finished_
       => pc'[t] = "push_wait"

\* C6: push does not return while the queue holds maxSize_ paths and
\* finished_ is false, it blocks; a push that returns with finished_ false
\* has appended its path at the tail (the length grows by one); a push that
\* returns with finished_ true, on entry or after a wait, leaves the queue
\* contents unchanged.
PushBlocksAppendsOrDiscards == [][PushContract]_vars

\* a push was discarded, and a push that blocked on the full queue has been
\* released by setFinished and is about to return
C6_Witness ==
  /\ discarded # {}
  /\ fileQueue.finished_
  /\ Len(fileQueue.queue_) = fileQueue.maxSize_
  /\ \E t \in Clients : pc[t] = "push_wait" /\ t \notin fileQueue.condProducer_

\* what a step may change once the stream has ended
EndOfStreamSteps ==
  /\ popFalse => popped' = popped
  /\ popFalse => \A t \in Clients : pc'[t] = "pop_wait" => pc[t] = "pop_wait"
  /\ fileQueue.finished_ => fileQueue'.finished_
  /\ fileQueue.finished_ => Len(fileQueue'.queue_) <= Len(fileQueue.queue_)
  /\ fileQueue.finished_ /\ finishCalls' # finishCalls => fileQueue' = fileQueue

\* C7: EndOfStream is stable: once a pop has returned false no pop returns
\* a path and no pop blocks; finished_ is never reset; nothing is inserted
\* once finished_ is set; a setFinished call on a finished queue changes
\* nothing.
EndOfStreamStable ==
  /\ [][EndOfStreamSteps]_vars
  /\ [](popFalse => fileQueue.finished_ /\ fileQueue.queue_ = <<>>)

\* after paths went through the queue a pop has returned false, setFinished
\* has been called a second time and another pop is being made
C7_Witness ==
  /\ popFalse
  /\ popped # <<>>
  /\ finishCalls = MaxSetFinished
  /\ \E t \in Clients : pc[t] = "pop"

\* C8: FIFO: the paths returned by the successful pops, in the order the
\* pops took the lock, followed by the paths still queued, are the paths
\* inserted by push, in the order they were inserted.
QueueIsFIFO == pushed = popped \o fileQueue.queue_

\* a queue of capacity two holds two paths after an earlier path was popped
C8_Witness ==
  /\ popped # <<>>
  /\ fileQueue.maxSize_ >= 2
  /\ Len(fileQueue.queue_) = 2

\* the layout of search_results.txt
IsHeader(i) == g_resultsFile[i].kind = "header"

LinesAfter(i) ==
  Cardinality({j \in (i + 1)..Len(g_resultsFile) :
                 \A k \in (i + 1)..j : g_resultsFile[k].kind = "line"})

BlockClosed(i) ==
  /\ i + LinesAfter(i) + 1 <= Len(g_resultsFile)
  /\ g_resultsFile[i + LinesAfter(i) + 1].kind = "blank"

Headers(p) == {i \in DOMAIN g_resultsFile : IsHeader(i) /\ g_resultsFile[i].path = p}

\* path p was popped and the worker that popped it is done with it
Scanned(p) == p \in Range(popped) /\ \A w \in Workers : filePath[w] # p

\* C9: a block is written to search_results.txt for a file if and only if
\* the scan of the file found at least one matching line (a file that cannot
\* be read yields no line); the N of its header is the number of matching
\* lines of the file and the number of "Line" lines that follow the header;
\* a scanned file without a match gets no block, no file gets two.
ResultBlocks ==
  /\ \A i \in DOMAIN g_resultsFile :
       IsHeader(i) =>
         /\ g_resultsFile[i].n >= 1
         /\ g_resultsFile[i].n = fileMatches[g_resultsFile[i].path]
         /\ LinesAfter(i) <= g_resultsFile[i].n
         /\ BlockClosed(i) => LinesAfter(i) = g_resultsFile[i].n
  /\ \A p \in Paths :
       /\ Cardinality(Headers(p)) <= 1
       /\ Scanned(p) =>
            /\ Headers(p) # {} <=> fileMatches[p] >= 1
            /\ \A i \in Headers(p) : BlockClosed(i)

\* the scan is over: one file has a block of two hits, another file was
\* scanned without a match and has no block
C9_Witness ==
  /\ QueueThreadsDone
  /\ \E p, q \in Range(popped) :
       /\ \E i \in Headers(p) : g_resultsFile[i].n = 2 /\ BlockClosed(i)
       /\ fileMatches[q] = 0 /\ Headers(q) = {}
       /\ g_status.filesScanned = 2

\* C10: every popped path is counted in filesScanned exactly once, also when
\* its file cannot be opened, so that the scan ends with filesScanned equal
\* to the number of paths pushed (stated here for the scans in which the
\* search pattern raises no regex_error).
FilesScannedEqualsPushed ==
  mainPc = "returned" /\ ~regex_error => g_status.filesScanned = Len(pushed)

\* C11: when regex mode is on and the search pattern does not compile, the
\* scan aborts before any work begins: no path is pushed, no worker pops a
\* path to open its file, and no block is written to search_results.txt.
InvalidRegexAbortsBeforeWork ==
  regex_error => /\ pushed = <<>>
                 /\ popped = <<>>
                 /\ g_resultsFile = <<>>

\* no thread has been created and the queue has not been used
NothingStarted ==
  /\ monPc = "idle"
  /\ \A t \in Clients : pc[t] = "idle"
  /\ workersStarted = 0
  /\ pushed = <<>>
  /\ fileQueue = BoundedFileQueue(MAX_QUEUE_SIZE)

\* the return of searchInDirectory from the opening of the result file or
\* from the building of the filename filter, and what can follow it
AbortSteps ==
  /\ mainPc \in {"open_results", "build_filter"} /\ mainPc' = "returned"
       => /\ NothingStarted'
          /\ g_status' = g_status
          /\ g_filesProcessed' = g_filesProcessed
  /\ mainPc = "returned" /\ NothingStarted => vars' = vars

\* C12: when the result file cannot be opened, or the filename filter does
\* not compile, searchInDirectory returns before it starts the monitor, the
\* producer or a worker: up to that return no thread exists, no path is
\* pushed and g_status has the values it had at the call, the return leaves
\* them so, and nothing happens after it.
AbortsBeforeAnyThread ==
  /\ [](mainPc \in {"open_results", "build_filter"}
          => NothingStarted /\ g_status = StatusData /\ g_filesProcessed = 0)
  /\ [][AbortSteps]_vars

\* searchInDirectory has returned without having started anything
C12_Witness == mainPc = "returned" /\ NothingStarted

\* a thread that was never created or has terminated
NotRunning(position) == position \in {"idle", "exited"}

\* what has terminated at each stage of the joins
JoinOrder ==
  /\ mainPc \in {"join_workers", "join_monitor", "final_print"}
       => pc[Producer] = "exited"
  /\ mainPc = "join_workers" => \A w \in 1..workersJoined : pc[w] = "exited"
  /\ mainPc \in {"join_monitor", "final_print"}
       => workersJoined = NumWorkers /\ \A w \in Workers : pc[w] = "exited"
  /\ mainPc = "final_print" => monPc = "exited"
  /\ mainPc \in {"final_print", "returned"}
       => /\ \A t \in Clients : NotRunning(pc[t])
          /\ NotRunning(monPc)
          /\ resultsHolder = NoThread

\* the stages follow one another, and from the final snapshot on the status,
\* the result file and the queue do not change
FinalSnapshotSteps ==
  /\ mainPc = "join_producer" => mainPc' \in {"join_producer", "join_workers"}
  /\ mainPc = "join_workers" => mainPc' \in {"join_workers", "join_monitor"}
  /\ mainPc = "join_monitor" => mainPc' \in {"join_monitor", "final_print"}
  /\ mainPc = "final_print" => mainPc' \in {"final_print", "returned"}
  /\ mainPc \in {"final_print", "returned"}
       => /\ g_status' = g_status
          /\ g_filesProcessed' = g_filesProcessed
          /\ g_resultsFile' = g_resultsFile
          /\ fileQueue' = fileQueue

\* C13: searchInDirectory joins the producer, then all workers, then the
\* monitor, and only then prints the final status and returns: when the
\* final status is printed no producer, worker or monitor thread is running
\* and nobody holds the results lock, and from then on filesScanned,
\* totalHits, the result file and the queue keep their values.
JoinsThenFinalSnapshot ==
  /\ []JoinOrder
  /\ [][FinalSnapshotSteps]_vars

\* the final status is about to be printed after a scan that counted every
\* file and found hits
C13_Witness ==
  /\ mainPc = "final_print"
  /\ g_status.filesScanned = MaxEntries
  /\ g_status.totalHits > 0

\* the workers inside the critical section of g_resultsMutex
Writers == {w \in Workers : pc[w] = "results_write"}

\* at most one worker is in the critical section, and it is the lock holder
ResultsMutualExclusion ==
  /\ Cardinality(Writers) <= 1
  /\ \A w \in Workers : w \in Writers <=> resultsHolder = w

\* the end of the result file is the part of its block that the worker in
\* the critical section has written so far: the header of its file and the
\* first flushed[w] of its matches
OpenBlock(w) ==
  LET len == Len(g_resultsFile)
      h == len - flushed[w]
  IN  /\ h >= 1
      /\ g_resultsFile[h] = ResultLine("header", filePath[w], Len(matches[w]))
      /\ \A j \in 1..flushed[w] :
           g_resultsFile[h + j] = ResultLine("line", NoPath, matches[w][j])
      /\ Len(matches[w]) = fileMatches[filePath[w]]

\* the result file is a sequence of blocks: a header, its N >= 1 match
\* lines, a blank line; only the last block can be incomplete, and only
\* while a worker is writing it
Contiguous ==
  /\ \A i \in DOMAIN g_resultsFile :
       LET kind == g_resultsFile[i].kind
           before == IF i = 1 THEN "blank" ELSE g_resultsFile[i - 1].kind
       IN  /\ kind = "header" => before = "blank"
           /\ kind = "line" => before \in {"header", "line"}
           /\ kind = "blank" => before = "line"
           /\ kind = "header" /\ i + LinesAfter(i) < Len(g_resultsFile)
                => LinesAfter(i) = g_resultsFile[i].n
  /\ g_resultsFile # <<>> /\ g_resultsFile[Len(g_resultsFile)].kind # "blank"
       => resultsHolder # NoThread

\* the result file only grows, by one line per step, written by the lock
\* holder after the scan of its file (no match is found meanwhile for it)
ResultsSteps ==
  g_resultsFile' # g_resultsFile /\ mainPc # "open_results"
    => /\ \E w \in Workers :
            /\ w \in Writers \/ w \in Writers'
            /\ resultsHolder \in {NoThread, w} /\ resultsHolder' \in {NoThread, w}
            /\ fileMatches'[filePath[w]] = fileMatches[filePath[w]]
       /\ Len(g_resultsFile') = Len(g_resultsFile) + 1
       /\ SubSeq(g_resultsFile', 1, Len(g_resultsFile)) = g_resultsFile

\* C14: writes to search_results.txt are mutually exclusive and per-file
\* atomic: at most one worker holds the results lock, the worker holding it
\* writes the whole block of its file (header, all its match lines, blank
\* line) in one critical section after the file has been scanned, and so
\* the lines of a block are contiguous in the file, never interleaved with
\* the lines of another file, under any interleaving of the workers.
ResultBlocksAtomic ==
  /\ [](ResultsMutualExclusion /\ Contiguous)
  /\ [](\A w \in Writers : OpenBlock(w))
  /\ [][ResultsSteps]_vars

\* a worker is half way through the block of its file while the other
\* worker, done with a file that has matches too, waits for the lock
C14_Witness ==
  \E w, v \in Workers :
    /\ w \in Writers /\ flushed[w] = 1 /\ Len(matches[w]) = 2
    /\ pc[v] = "results_lock" /\ matches[v] # <<>>

\* C15: in every block of search_results.txt the reported line numbers are
\* at least 1 and strictly increasing from one match line to the next.
AscendingLineNumbers ==
  \A i \in DOMAIN g_resultsFile :
    g_resultsFile[i].kind = "line" =>
      /\ g_resultsFile[i].n >= 1
      /\ i > 1 /\ g_resultsFile[i - 1].kind = "line"
           => g_resultsFile[i - 1].n < g_resultsFile[i].n

\* two blocks have been written, one with the lines 1 and 2 and one with
\* line 2 only
C15_Witness ==
  \E i, j \in DOMAIN g_resultsFile :
    /\ IsHeader(i) /\ g_resultsFile[i].n = 2 /\ BlockClosed(i)
    /\ g_resultsFile[i + 1].n = 1 /\ g_resultsFile[i + 2].n = 2
    /\ IsHeader(j) /\ g_resultsFile[j].n = 1 /\ BlockClosed(j)
    /\ g_resultsFile[j + 1].n = 2

\* the queue is finished and drained
FinishedAndEmpty == isFinished(fileQueue) /\ isEmpty(fileQueue)

\* the loop of the monitor: a check (isFinished, then isEmpty if needed)
\* sets `done`, one render follows it, and the render is followed by the
\* next check when `done` is false and by the end of the thread when true
MonitorSteps ==
  /\ monPc = "sleep" /\ monPc' # "sleep"
       => \/ ~isFinished(fileQueue) /\ monPc' = "print" /\ ~done'
          \/ isFinished(fileQueue) /\ monPc' = "isEmpty"
  /\ monPc = "isEmpty" /\ monPc' # "isEmpty"
       => monPc' = "print" /\ done' = FinishedAndEmpty
  /\ monPc = "print" /\ monPc' # "print"
       => monPc' = IF done THEN "exited" ELSE "sleep"
  /\ monPc = "exited" => monPc' = "exited"
  /\ monPc \in {"print", "exited"} => done' = done

\* C16: the monitor checks whether the queue is finished and empty after
\* each render that is not its last; when a check is true it renders once
\* more and stops; it has not stopped while the queue is not finished or not
\* empty; and it eventually stops once the queue is finished and drained.
MonitorLoop ==
  /\ [][MonitorSteps]_vars
  /\ [](done /\ monPc \in {"print", "exited"} => FinishedAndEmpty)
  /\ [](monPc = "exited" => done /\ FinishedAndEmpty)
  /\ FinishedAndEmpty ~> (monPc = "exited")

\* the monitor has stopped, after files went through the queue, while a
\* worker is still reading the last file
C16_Witness ==
  /\ monPc = "exited"
  /\ Len(popped) = MaxEntries
  /\ \E w \in Workers : pc[w] = "getline"

\* a worker leaves its loop, which it does when its pop returns false
WorkerLeaves(w) == pc[w] \in {"pop", "pop_wait"} /\ pc'[w] = "exited"

\* the step in which a pop returns false is taken on the finished, empty
\* queue and leaves it so
EndOfStreamOnlyWhenDrained ==
  \A w \in Workers :
    WorkerLeaves(w) =>
      /\ fileQueue.finished_ /\ fileQueue.queue_ = <<>>
      /\ fileQueue'.finished_ /\ fileQueue'.queue_ = <<>>

\* the paths that were pushed and are not queued any more
Taken == {pushed[i] : i \in 1..(Len(pushed) - Len(fileQueue.queue_))}

\* C17: pop returns false only when the queue is empty and finished_ is
\* set: a worker that has left its loop left no path queued, every path
\* pushed and no longer queued has been popped, and when all workers have
\* left, every pushed path, those queued at the call of setFinished
\* included, has been popped and its search has returned.
WorkersDrainTheQueue ==
  /\ [][EndOfStreamOnlyWhenDrained]_vars
  /\ []((\E w \in Workers : pc[w] = "exited")
          => fileQueue.finished_ /\ fileQueue.queue_ = <<>>)
  /\ [](Taken = Range(popped))
  /\ []((\A w \in Workers : pc[w] = "exited")
          => /\ Range(popped) = Range(pushed)
             /\ \A p \in Range(pushed) : Scanned(p))

\* setFinished has been called with a path still queued and a worker, woken
\* from its wait, is about to pop it
C17_Witness ==
  /\ fileQueue.finished_
  /\ fileQueue.queue_ # <<>>
  /\ pc[Producer] = "exited"
  /\ \E w \in Workers : pc[w] = "pop_wait" /\ ~BlockedInPop(w)

\* a push of the producer returns having appended its path, and setFinished
\* is called by the producer, at its call site after the loop
ProducerPushEnqueues ==
  /\ PushReturns(Producer)
       => /\ ~fileQueue.finished_
          /\ fileQueue'.queue_ = Append(fileQueue.queue_, filePath[Producer])
          /\ pushed' = Append(pushed, filePath[Producer])
  /\ finishCalls' # finishCalls
       => pc[Producer] = "setFinished" /\ pc'[Producer] = "exited"

\* C18: in a scan run by searchInDirectory the branch of push that discards
\* on finished_ is never taken: every push of the producer returns having
\* enqueued its path, because only the producer calls push and setFinished
\* and it calls setFinished after its last push.
DiscardBranchNeverTaken ==
  /\ [](discarded = {})
  /\ [](\A w \in Workers : pc[w] \notin {"push", "push_wait", "setFinished"})
  /\ [](fileQueue.finished_ => pc[Producer] = "exited")
  /\ [][ProducerPushEnqueues]_vars

\* the producer has pushed a path for every entry, blocked on the full queue
\* in between, and has called setFinished with its last path still queued
C18_Witness ==
  /\ pc[Producer] = "exited"
  /\ Len(pushed) = MaxEntries
  /\ Len(fileQueue.queue_) = MAX_QUEUE_SIZE
  /\ discarded = {}

\* C19: g_status is fresh at the start of every call of searchInDirectory,
\* a second call in the same process included: filesScanned = 0,
\* totalHits = 0, fileHits = 0, currentFile empty, lastError "none".
StatusFreshAtEveryCall ==
  mainPc \in {"open_results", "second_call"} => g_status = StatusData

RECURSIVE HitsOfBlocks(_)
\* the sum of the N of the headers among the first i lines of the result file
HitsOfBlocks(i) ==
  IF i = 0 THEN 0
  ELSE HitsOfBlocks(i - 1) + (IF IsHeader(i) THEN g_resultsFile[i].n ELSE 0)

RECURSIVE HitsPending(_)
\* the matches found by the workers 1..w that are in the scan of a file or
\* wait for the results lock: counted in totalHits, their block not begun
HitsPending(w) ==
  IF w = 0 THEN 0
  ELSE HitsPending(w - 1)
         + (IF pc[w] \in {"getline", "results_lock"} THEN Len(matches[w]) ELSE 0)

\* no step decreases filesScanned or totalHits
CountersSteps ==
  /\ g_status'.filesScanned >= g_status.filesScanned
  /\ g_status'.totalHits >= g_status.totalHits

\* C20: filesScanned and totalHits never decrease, and no increment of
\* concurrent workers is lost: totalHits is at any time the sum of the hit
\* counts N of the blocks begun in search_results.txt and of the matches
\* the workers hold for blocks not yet begun, so that when the scan ends
\* totalHits equals the sum of the N of all blocks written during the scan.
CountersConsistent ==
  /\ [][CountersSteps]_vars
  /\ [](g_status.totalHits = HitsOfBlocks(Len(g_resultsFile)) + HitsPending(NumWorkers))
  /\ [](mainPc \in {"final_print", "returned"}
          => /\ g_status.totalHits = HitsOfBlocks(Len(g_resultsFile))
             /\ g_status.filesScanned = g_filesProcessed)

\* two workers are scanning their files at the same time, each has found a
\* match, and both increments are in totalHits
C20_Witness ==
  \E w, v \in Workers :
    /\ w # v
    /\ pc[w] = "getline" /\ Len(matches[w]) = 1
    /\ pc[v] = "getline" /\ Len(matches[v]) = 1
    /\ g_status.totalHits = 2

=============================================================================
